---- MODULE Spec2Model ----
(***************************************************************************)
(* Model of the project archival / retention engine of ayon-core:          *)
(* client/ayon_core/modules/archive/lib/expunge.py, class ArchiveProject.  *)
(*                                                                         *)
(* Time is counted in whole days.  A path is a sequence of components and  *)
(* a component (a file or directory name) is a sequence of text tokens, so *)
(* that the stage prefix, its parenthesised date and the frame number of a *)
(* sequence member are visible to the operators that the code applies to   *)
(* names (substring test, regular expression, frame wildcard).             *)
(***************************************************************************)
EXTENDS Integers, Sequences, FiniteSets, TLC

\* ------------------------------------------------------------------ bounds
MaxTime == 6
MaxTimeLong == 11
MaxRuns == 3
MaxCreates == 1
MaxFailures == 1

\* ------------------------------------------------------- program constants
CautionLevels == {0, 1, 2}

\* caution_level=None, as passed by clean_existing_entries
NoCaution == -1

\* WARNING_THRESHOLDS, as days before the captured current time
WARNING_THRESHOLDS == [l \in CautionLevels |-> IF l = 0 THEN 2 ELSE IF l = 1 THEN 3 ELSE 8]

\* DELETE_THRESHOLDS, in days
DELETE_THRESHOLDS == [l \in CautionLevels |-> IF l = 0 THEN 2 ELSE IF l = 1 THEN 5 ELSE 10]

DELETE_PREFIX == "__DELETE__"

\* strftime(DATE_FORMAT) of a time: the text of its day
DateStr(t) == ToString(t)

\* TIME_DELETE_PREFIX for a process whose TIME_NOW is t: "__DELETE__(<date>)"
TIME_DELETE_PREFIX(t) == <<DELETE_PREFIX, "(", DateStr(t), ")">>

\* const._debug of the archive module; the model covers the production setting
DEBUG == FALSE

\* ------------------------------------------------------------ names, paths
\* os.path.split / os.path.join on a path
DirOf(p) == SubSeq(p, 1, Len(p) - 1)
NameOf(p) == p[Len(p)]
Join(d, n) == Append(d, n)

\* DELETE_PREFIX in original_name
HasPrefix(n) == \E i \in 1..Len(n) : n[i] = DELETE_PREFIX

\* DELETE_PREFIX_RE.sub("", name) with DELETE_PREFIX_RE = __DELETE__\(.*\):
\* the leftmost "__DELETE__(" that has a ")" after it, up to the LAST ")"
\* of the name (the star is greedy), is removed.
StripStarts(n) == {i \in 1..Len(n) - 2 : /\ n[i] = DELETE_PREFIX
                                          /\ n[i + 1] = "("
                                          /\ \E j \in i + 2..Len(n) : n[j] = ")"}
StripPrefix(n) ==
    IF StripStarts(n) = {} THEN n
    ELSE LET i == CHOOSE a \in StripStarts(n) : \A b \in StripStarts(n) : a <= b
             j == CHOOSE a \in i + 2..Len(n) :
                     /\ n[a] = ")"
                     /\ \A b \in i + 2..Len(n) : n[b] = ")" => b <= a
         IN SubSeq(n, 1, i - 1) \o SubSeq(n, j + 1, Len(n))

\* tokens that are frame numbers
FrameNumbers == {"1001", "1002"}

\* path_tools.replace_frame_number_with_token(path, "*"): the frame number
\* in front of the extension of the file name becomes the wildcard
IsFrameName(n) == Len(n) >= 4 /\ n[Len(n) - 2] \in FrameNumbers
                  /\ n[Len(n) - 1] = "." /\ n[Len(n) - 3] = "."
replace_frame_number_with_token(p) ==
    LET n == NameOf(p)
    IN IF IsFrameName(n)
       THEN Join(DirOf(p), [n EXCEPT ![Len(n) - 2] = "*"])
       ELSE p

\* ------------------------------------------------------- the file universe
ProjDir == << <<"proj">>, <<"shots">> >>
WorkDir == Join(ProjDir, <<"work">>)
\* a member of PROTECTED_PATHS, formatted with the project code
ProtDir == Join(ProjDir, <<"_2d_shot">>)

Frame1 == Join(WorkDir, <<"render", ".", "1001", ".", "exr">>)
Frame2 == Join(WorkDir, <<"render", ".", "1002", ".", "exr">>)
Notes == Join(WorkDir, <<"scene", ".", "nk~">>)
Plate == Join(ProtDir, <<"plate", ".", "exr">>)

\* a published version directory, which the tracker may report as sent
VerDir == Join(Join(ProjDir, <<"publish">>), <<"v001">>)

OrigPaths == {Frame1, Frame2, Notes, Plate, VerDir}

\* st_size of the file first found at an original path
SizeOf(p) == IF p = Frame1 THEN 1 ELSE IF p = Frame2 THEN 2
             ELSE IF p = Notes THEN 4 ELSE IF p = Plate THEN 8 ELSE 16

\* what "du -s" prints for a directory, in blocks of 1024 bytes
DuBlocks == 3

\* modification time of the files that are there from the start
OldMtime == -8

\* what the publish location of a source file is called by the scanners
PubPath == Join(Join(ProjDir, <<"publish">>), <<"exr">>)

\* ------------------------------------------------------------------- state
\* the interpreters that run clean() on the project: the scheduled job, whose
\* runs are started one after the other (clean_all), and a second one that
\* somebody starts by hand while the job may be under way
Procs == {1, 2}
Cron == {1}

VARIABLES
    today,                \* datetime.today(): the clock
    fs,                   \* the file tree: path -> attributes
    delete_csv,           \* delete_data.csv: [exists, rows]
    protected_csv,        \* protected_data.csv: [exists, rows]
    pc,                   \* per process: "idle" or "scanning"
    TIME_NOW,             \* per process: module constant captured at import
    archive,              \* per process: the archive argument of clean()
    archive_entries,      \* per process: ArchiveProject.archive_entries
    protected_entries,    \* per process: ArchiveProject.protected_entries
    total_size_deleted,   \* per process: ArchiveProject.total_size_deleted
    todo,                 \* per process: paths the scanners have yet to visit
    deleted_log,          \* history: every file removed, with when it was staged
    runs,                 \* number of ArchiveProject objects constructed
    creates,              \* number of files users created
    failures,             \* number of operating system errors so far
    purged,               \* purge() has run: the project is archived
    auto_cleanup,         \* the tracker's sg_auto_cleanup flag of the project
    ever_protected,       \* history: every path a run has held as protected
    arg,                  \* the arguments of a call of a function that is
                          \* looked at on its own
    result                \* what that call gave

vars == <<today, fs, delete_csv, protected_csv, pc, TIME_NOW, archive,
          archive_entries, protected_entries, total_size_deleted, todo,
          deleted_log, runs, creates, failures, purged, auto_cleanup,
          ever_protected, arg, result>>

\* no call of a function on its own is under way
NoCall == <<>>

\* values of the optional columns: key missing from the dict, pandas NaN
Absent == "<absent>"
NaN == "<nan>"

NoPath == <<>>
NoTime == [has |-> FALSE, t |-> 0]
NoExtra == [publish_dir |-> Absent, publish_id |-> Absent, reason |-> Absent]

\* attributes of a file: os.stat and the staging history of that file
FileAttr(p, t) == [kind |-> IF p = VerDir THEN "dir" ELSE "file",
                   mtime |-> t, st_size |-> SizeOf(p),
                   staged_at |-> -1, grace |-> -1]
LinkAttr(target) == [kind |-> "link", mtime |-> OldMtime, st_size |-> 0,
                     staged_at |-> -1, grace |-> -1]

\* remove / add a key of a function
Without(f, k) == [x \in DOMAIN f \ {k} |-> f[x]]
With(f, k, v) == (k :> v) @@ Without(f, k)

\* n ends with the tokens of m
EndsWith(n, m) == Len(m) <= Len(n) /\ SubSeq(n, Len(n) - Len(m) + 1, Len(n)) = m

\* glob.glob(os.path.join(dir_path, f"*{original_name}"))
GlobStar(fs_, filepath) ==
    {q \in DOMAIN fs_ : Len(q) = Len(filepath) /\ DirOf(q) = DirOf(filepath)
                        /\ EndsWith(NameOf(q), NameOf(filepath))}

\* the element glob.glob(...)[0]: the listing order is not specified, the
\* caller's env says whether the oldest or the newest staged match comes first
GlobFirst(fs_, filepath, newest) ==
    LET M == GlobStar(fs_, filepath)
    IN CHOOSE q \in M : \A r \in M :
          IF newest THEN fs_[r].staged_at <= fs_[q].staged_at
                    ELSE fs_[q].staged_at <= fs_[r].staged_at

\* ArchiveProject.get_filepath_size: "du" of a path that is a directory at
\* the time of the call, else st_size of the stat taken on entry
get_filepath_size(fs_, filepath, attr) ==
    IF filepath \in DOMAIN fs_ /\ fs_[filepath].kind = "dir"
    THEN DuBlocks * 1024
    ELSE attr.st_size

\* the Ledger key that consider_file_for_deletion computes for a name on disk
PathEntry(filepath) ==
    IF HasPrefix(NameOf(filepath))
    THEN Join(DirOf(filepath), StripPrefix(NameOf(filepath)))
    ELSE replace_frame_number_with_token(filepath)

\* path_entry in self.protected_entries
IsProtected_mut_never(prot, path_entry) == FALSE
IsProtected(prot, path_entry) == path_entry \in prot

\* the dict built for a path that has no Ledger entry; paths = {} and
\* size = 0 stand for the keys "paths" and "size" not being set yet
NewEntry_mut_window(time_now, caution_level, extra_data) ==
    [marked_time |-> time_now,
     delete_time |-> time_now + WARNING_THRESHOLDS[caution_level],
     is_deleted |-> FALSE,
     size |-> 0,
     paths |-> {},
     publish_dir |-> extra_data.publish_dir,
     publish_id |-> extra_data.publish_id,
     reason |-> extra_data.reason]
NewEntry(time_now, caution_level, extra_data) ==
    [marked_time |-> time_now,
     delete_time |-> time_now + DELETE_THRESHOLDS[caution_level],
     is_deleted |-> FALSE,
     size |-> 0,
     paths |-> {},
     publish_dir |-> extra_data.publish_dir,
     publish_id |-> extra_data.publish_id,
     reason |-> extra_data.reason]

\* a path and its size are folded into a dict (expunge.py 1267-1272 and
\* 1296-1301): added to "paths" and "size" when "paths" is set and not empty
AddToEntry_mut_overwrite(data_entry, path, size) ==
    [data_entry EXCEPT !.paths = {path}, !.size = size]
AddToEntry(data_entry, path, size) ==
    [data_entry EXCEPT !.paths = @ \cup {path},
                       !.size = IF data_entry.paths # {} THEN @ + size ELSE size]

\* the dict the call works on (expunge.py 1232-1249): the one in
\* archive_entries, else a new one
EntryFor_mut_fresh(entries, path_entry, time_now, caution_level, extra_data) ==
    NewEntry(time_now, IF caution_level \in CautionLevels THEN caution_level ELSE 2,
             extra_data)
EntryFor(entries, path_entry, time_now, caution_level, extra_data) ==
    IF path_entry \in DOMAIN entries THEN entries[path_entry]
    ELSE NewEntry(time_now, IF caution_level \in CautionLevels THEN caution_level ELSE 2,
                  extra_data)

\* datetime.today() > data_entry.get("delete_time")
PastDeleteTime_mut_ge(today_, data_entry) == today_ >= data_entry.delete_time
PastDeleteTime(today_, data_entry) == today_ > data_entry.delete_time

\* filepath_stat.st_mtime > WARNING_THRESHOLDS.get(caution_level, WARNING_THRESHOLDS[2])
NewerThanWarning_mut_never(attr, time_now, caution_level) == FALSE
NewerThanWarning(attr, time_now, caution_level) ==
    attr.mtime > time_now - (IF caution_level \in CautionLevels
                             THEN WARNING_THRESHOLDS[caution_level]
                             ELSE WARNING_THRESHOLDS[2])

\* the path has no entry and "caution_level is None"
MissingCaution_mut_never(known, caution_level) == FALSE
MissingCaution(known, caution_level) == ~known /\ caution_level = NoCaution

\* create_time and filepath_stat.st_mtime > create_time.timestamp()
ModifiedAfter_mut_never(attr, create_time) == FALSE
ModifiedAfter(attr, create_time) == create_time.has /\ attr.mtime > create_time.t

\* DELETE_PREFIX in original_name or archive: the call goes to the delete
\* branch
StagedOrForced_mut_staged(original_name, archive_) == HasPrefix(original_name)
StagedOrForced(original_name, archive_) == HasPrefix(original_name) \/ archive_

\* the delete branch (expunge.py 1253-1277) for an existing path
DeleteBranch(s, filepath, attr, path_entry, data_entry, archive_, env) ==
    IF PastDeleteTime(s.today, data_entry) \/ archive_
    THEN IF env.delete_ok /\ ~DEBUG
         THEN LET size_deleted == get_filepath_size(Without(s.fs, filepath), filepath, attr)
                  e == AddToEntry([data_entry EXCEPT !.is_deleted = TRUE],
                                  filepath, size_deleted)
              IN [s EXCEPT
                    !.fs = Without(s.fs, filepath),
                    !.total_size_deleted = @ + size_deleted,
                    !.archive_entries = With(s.archive_entries, path_entry, e),
                    !.deleted_log = @ \cup {[path |-> filepath,
                                            staged_at |-> attr.staged_at,
                                            grace |-> attr.grace,
                                            at |-> s.today,
                                            forced |-> archive_]},
                    !.ret = <<TRUE, FALSE>>]
         ELSE [s EXCEPT !.ret = <<FALSE, FALSE>>]
    ELSE [s EXCEPT !.ret = <<FALSE, FALSE>>]

\* os.rename raised (expunge.py 1303-1304): the call ends there, before the
\* symlink is tried; an entry that was in archive_entries has been changed
FailedRename_mut_linked(s, touched, filepath, symlink_path) ==
    [s EXCEPT !.fs = IF symlink_path # NoPath
                     THEN With(s.fs, filepath, LinkAttr(symlink_path)) ELSE s.fs,
              !.archive_entries = touched, !.raised = TRUE, !.ret = <<>>]
FailedRename(s, touched, filepath, symlink_path) ==
    [s EXCEPT !.archive_entries = touched, !.raised = TRUE, !.ret = <<>>]

\* the staging part (expunge.py 1289-1323) for an existing path
StageBranch(s, filepath, attr, path_entry, data_entry, known, caution_level, symlink_path, env) ==
    LET new_filepath == Join(DirOf(filepath),
                             TIME_DELETE_PREFIX(s.TIME_NOW) \o NameOf(filepath))
        size == get_filepath_size(s.fs, filepath, attr)
        e == AddToEntry(data_entry, new_filepath, size)
        \* an entry that is already in archive_entries is the same dict
        \* object: it is changed before the rename is tried
        touched == IF known THEN With(s.archive_entries, path_entry, e)
                   ELSE s.archive_entries
        staged == [attr EXCEPT !.staged_at = s.TIME_NOW,
                               !.grace = IF caution_level \in CautionLevels
                                         THEN DELETE_THRESHOLDS[caution_level]
                                         ELSE data_entry.delete_time - data_entry.marked_time]
        renamed == With(Without(s.fs, filepath), new_filepath, staged)
    IN IF ~env.rename_ok
       THEN FailedRename(s, touched, filepath, symlink_path)
       ELSE IF symlink_path # NoPath /\ ~env.symlink_ok
       THEN [s EXCEPT !.fs = renamed, !.archive_entries = touched,
                      !.raised = TRUE, !.ret = <<>>]
       ELSE [s EXCEPT
               !.fs = IF symlink_path # NoPath
                      THEN With(renamed, filepath, LinkAttr(symlink_path))
                      ELSE renamed,
               !.archive_entries = With(s.archive_entries, path_entry, e),
               !.ret = <<FALSE, TRUE>>]

\* consider_file_for_deletion once os.stat has found the path
ConsiderExisting(s, filepath, caution_level, archive_, create_time, extra_data, symlink_path, env) ==
    LET attr == s.fs[filepath]
        path_entry == PathEntry(filepath)
        known == path_entry \in DOMAIN s.archive_entries
        data_entry == EntryFor(s.archive_entries, path_entry, s.TIME_NOW,
                               caution_level, extra_data)
    IN IF attr.kind = "link" THEN [s EXCEPT !.ret = <<FALSE, FALSE>>]
       ELSE IF IsProtected(s.protected_entries, path_entry)
       THEN [s EXCEPT !.ret = <<>>]
       ELSE IF MissingCaution(known, caution_level)
       THEN [s EXCEPT !.ret = <<FALSE, FALSE>>]
       ELSE IF StagedOrForced(NameOf(filepath), archive_)
       THEN DeleteBranch(s, filepath, attr, path_entry, data_entry, archive_, env)
       ELSE IF ModifiedAfter(attr, create_time)
       THEN [s EXCEPT !.ret = <<FALSE, FALSE>>]
       ELSE IF NewerThanWarning(attr, s.TIME_NOW, caution_level)
       THEN [s EXCEPT !.ret = <<FALSE, FALSE>>]
       ELSE StageBranch(s, filepath, attr, path_entry, data_entry, known,
                        caution_level, symlink_path, env)

\* ArchiveProject.consider_file_for_deletion.  s holds the state the call
\* reads and changes; ret = <<deleted, marked>>, or <<>> for a bare return
\* (None) and for a call that raised.
consider_file_for_deletion(s, filepath, caution_level, archive_, create_time, extra_data, symlink_path, env) ==
    IF filepath = NoPath THEN [s EXCEPT !.ret = <<FALSE, FALSE>>]
    ELSE IF filepath \in DOMAIN s.fs
    THEN ConsiderExisting(s, filepath, caution_level, archive_, create_time,
                          extra_data, symlink_path, env)
    ELSE IF GlobStar(s.fs, filepath) = {}
    THEN [s EXCEPT !.ret = <<FALSE, FALSE>>]
    ELSE ConsiderExisting(s, GlobFirst(s.fs, filepath, env.glob_newest),
                          caution_level, archive_, create_time, extra_data,
                          symlink_path, env)

\* ------------------------------------------------------------ batch calls
\* clique.assemble(filepaths): every run of digits of a path is a candidate
\* index; the paths that agree on everything else (head, tail) form a
\* collection when there are at least two of them (minimum_items=2).  A
\* collection iterates its members by ascending index; collections come
\* in the order their key is first met; the remainder lists the paths that
\* are in no collection: first those without digits, then the others, each
\* group in the order of the input.  A path with several runs of digits has
\* several keys and is a member of every collection that one of them forms.
\* The paths of a batch are files of one directory: the digits are those of
\* the file name.
Numbers == (0..MaxTimeLong) \cup {1001, 1002}
DigitTokens == {ToString(v) : v \in Numbers}
IsDigits(tok) == tok \in DigitTokens
IntOf(tok) == CHOOSE v \in Numbers : ToString(v) = tok
CliqueKeys(p) ==
    {[head |-> Join(DirOf(p), SubSeq(NameOf(p), 1, i - 1)),
      tail |-> SubSeq(NameOf(p), i + 1, Len(NameOf(p)))] :
        i \in {j \in 1..Len(NameOf(p)) : IsDigits(NameOf(p)[j])}}
IndexIn(p, k) == IntOf(NameOf(p)[Len(NameOf(k.head)) + 1])
Ranked(S, rank) ==
    CHOOSE q \in [1..Cardinality(S) -> S] :
        /\ \A x \in S : \E i \in DOMAIN q : q[i] = x
        /\ \A i, j \in DOMAIN q : i < j => rank[q[i]] < rank[q[j]]
assemble(filepaths) ==
    LET paths == {filepaths[i] : i \in 1..Len(filepaths)}
        members(k) == {p \in paths : k \in CliqueKeys(p)}
        keys == {k \in UNION {CliqueKeys(p) : p \in paths} :
                    Cardinality(members(k)) >= 2}
        first(k) == CHOOSE i \in 1..Len(filepaths) :
                       /\ k \in CliqueKeys(filepaths[i])
                       /\ \A j \in 1..i - 1 : k \notin CliqueKeys(filepaths[j])
        key_rank == [k \in keys |-> first(k) * 100 + Len(NameOf(k.head))]
        collection(k) == Ranked(members(k), [p \in members(k) |-> IndexIn(p, k)])
        ordered == Ranked(keys, key_rank)
        single == {p \in paths : \A k \in keys : p \notin members(k)}
        firstAt(p) == CHOOSE i \in 1..Len(filepaths) :
                         /\ filepaths[i] = p
                         /\ \A j \in 1..i - 1 : filepaths[j] # p
    IN [collections |-> [i \in 1..Cardinality(keys) |-> collection(ordered[i])],
        remainders |-> Ranked(single, [p \in single |->
                          IF CliqueKeys(p) = {} THEN firstAt(p)
                          ELSE Len(filepaths) + firstAt(p)])]

\* the symlink_paths argument: None, or a list
NoSymlinks == [has |-> FALSE, list |-> <<>>]
SymlinkList(q) == [has |-> TRUE, list |-> q]
\* symlink_paths[index] if symlink_paths else None
SymlinkAt(symlink_paths, index) ==
    IF symlink_paths.has /\ symlink_paths.list # <<>>
    THEN symlink_paths.list[index]
    ELSE NoPath

\* "if deleted_: deleted = True" and "if marked_: marked = True"
OrResult_mut_last(acc, ret) == ret
OrResult(acc, ret) == <<acc[1] \/ ret[1], acc[2] \/ ret[2]>>

\* the loop "for index, filepath in enumerate(...)" of both batch functions
\* from member index on, with the results so far in acc.  The result of
\* every call is unpacked ("deleted_, marked_ = ..."): a call that raises,
\* or that returns None (TypeError), ends the loop and the exception leaves
\* the batch function.  a holds the arguments that are passed on; env_of
\* tells for each path what the operating system does to its call.
RECURSIVE ConsiderMembers(_, _, _, _, _, _)
ConsiderMembers(s, members, index, acc, a, env_of) ==
    IF index > Len(members) THEN [s EXCEPT !.ret = acc]
    ELSE LET t == consider_file_for_deletion([s EXCEPT !.ret = <<>>],
                      members[index], a.caution_level, a.archive,
                      a.create_time, a.extra_data,
                      SymlinkAt(a.symlink_paths, index), env_of[members[index]])
         IN IF t.raised \/ t.ret = <<>>
            THEN [t EXCEPT !.raised = TRUE, !.ret = <<>>]
            ELSE ConsiderMembers(t, members, index + 1, OrResult(acc, t.ret),
                                 a, env_of)

consider_collection_for_deletion(s, collection, a, env_of) ==
    ConsiderMembers(s, collection, 1, <<FALSE, FALSE>>, a, env_of)

\* the loop over the collections of consider_filepaths_for_deletion
RECURSIVE ConsiderCollections(_, _, _, _, _, _)
ConsiderCollections(s, collections, index, acc, a, env_of) ==
    IF index > Len(collections) THEN [s EXCEPT !.ret = acc]
    ELSE LET t == consider_collection_for_deletion([s EXCEPT !.ret = <<>>],
                      collections[index], a, env_of)
         IN IF t.raised THEN t
            ELSE ConsiderCollections(t, collections, index + 1,
                                     OrResult(acc, t.ret), a, env_of)

consider_filepaths_for_deletion(s, filepaths, a, env_of) ==
    IF a.symlink_paths.has
       /\ \/ a.symlink_paths.list = <<>>
          \/ Len(a.symlink_paths.list) # Len(filepaths)
          \/ a.symlink_paths.list[1][2] # filepaths[1][2]
    THEN [s EXCEPT !.ret = <<FALSE, FALSE>>]
    ELSE LET found == assemble(filepaths)
             c == ConsiderCollections(s, found.collections, 1,
                                      <<FALSE, FALSE>>, a, env_of)
         IN IF c.raised THEN c
            ELSE ConsiderMembers([c EXCEPT !.ret = <<>>], found.remainders, 1,
                                 c.ret, a, env_of)

\* ------------------------------------------------------------ persistence
RECURSIVE SetToSeq(_)
SetToSeq(S) == IF S = {} THEN <<>>
               ELSE LET x == CHOOSE y \in S : TRUE
                    IN <<x>> \o SetToSeq(S \ {x})
Range(q) == {q[i] : i \in 1..Len(q)}

\* a datetime cell: str() of the datetime on write, pd.to_datetime on read
TimeText(t) == [iso |-> t]
to_datetime(c) == c.iso

\* the paths cell: str() of the set on write, ast.literal_eval on read
PathsText(S) == SetToSeq(S)
literal_eval(c) == Range(c)

\* an optional column: data_entries.get(key, "") written by to_csv, where a
\* missing value gives an empty cell; read_csv gives NaN for an empty cell
OptText(v) == IF v \in {Absent, NaN} THEN "" ELSE v
ReadOpt(c) == IF c = "" THEN NaN ELSE c

\* one row of the data frame built by write_archive_data (expunge.py 262-271)
RowOf(path, e) ==
    [path |-> path,
     delete_time |-> TimeText(e.delete_time),
     marked_time |-> TimeText(e.marked_time),
     size |-> e.size,
     is_deleted |-> e.is_deleted,
     publish_dir |-> OptText(e.publish_dir),
     publish_id |-> OptText(e.publish_id),
     reason |-> OptText(e.reason),
     paths |-> PathsText(e.paths)]

\* the dict read_archive_data builds from a row (expunge.py 221-225)
EntryOf(row) ==
    [marked_time |-> to_datetime(row.marked_time),
     delete_time |-> to_datetime(row.delete_time),
     is_deleted |-> row.is_deleted,
     size |-> row.size,
     paths |-> literal_eval(row.paths),
     publish_dir |-> ReadOpt(row.publish_dir),
     publish_id |-> ReadOpt(row.publish_id),
     reason |-> ReadOpt(row.reason)]

\* the subsequence of q at the indices in I, in order
RECURSIVE Pick(_, _, _)
Pick(q, I, i) == IF i > Len(q) THEN <<>>
                 ELSE (IF i \in I THEN <<q[i]>> ELSE <<>>) \o Pick(q, I, i + 1)

\* DataFrame.drop_duplicates(subset=["path"], keep="last") on Ledger rows
DropDuplicates_mut_first(rows) ==
    Pick(rows, {i \in 1..Len(rows) :
                  \A j \in 1..i - 1 : rows[j].path # rows[i].path}, 1)
DropDuplicates(rows) ==
    Pick(rows, {i \in 1..Len(rows) :
                  \A j \in i + 1..Len(rows) : rows[j].path # rows[i].path}, 1)

\* the same on the one-column table of protected paths
DropDuplicatePaths(rows) ==
    Pick(rows, {i \in 1..Len(rows) :
                  \A j \in i + 1..Len(rows) : rows[j] # rows[i]}, 1)

\* data_frame[~data_frame["is_deleted"]]
NonDeleted_mut_all(rows) == rows
NonDeleted(rows) == SelectSeq(rows, LAMBDA row : ~row.is_deleted)

\* ArchiveProject.read_archive_data: the dict loaded from the table
read_archive_data(csv) ==
    IF ~csv.exists THEN << >>
    ELSE LET live == NonDeleted(csv.rows)
             keys == {live[i].path : i \in 1..Len(live)}
         IN [k \in keys |->
               LET i == CHOOSE a \in 1..Len(live) :
                          /\ live[a].path = k
                          /\ \A b \in a + 1..Len(live) : live[b].path # k
               IN EntryOf(live[i])]

\* ArchiveProject.write_archive_data: the table after the call
write_archive_data(csv, entries) ==
    LET keys == SetToSeq(DOMAIN entries)
        df == [i \in 1..Len(keys) |-> RowOf(keys[i], entries[keys[i]])]
    IN [exists |-> TRUE,
        rows |-> IF csv.exists THEN DropDuplicates(csv.rows \o df)
                 ELSE df]

\* PROTECTED_PATHS formatted with the project code
PROTECTED_PATHS == {ProtDir}

\* ArchiveProject.read_protected_data
read_protected_data_mut_seed(csv) == PROTECTED_PATHS
read_protected_data(csv) ==
    IF ~csv.exists THEN PROTECTED_PATHS ELSE Range(csv.rows)

\* ArchiveProject.write_protected_data
write_protected_data(csv, prot) ==
    LET df == SetToSeq(prot)
    IN [exists |-> TRUE,
        rows |-> IF csv.exists THEN DropDuplicatePaths(csv.rows \o df)
                 ELSE df]

\* --------------------------------------------------------------- the runs

\* the file first found at the original path o, whatever it is called now
Origin(p) == CHOOSE o \in OrigPaths :
                Len(o) = Len(p) /\ DirOf(o) = DirOf(p) /\ EndsWith(NameOf(p), NameOf(o))

\* the project trees the runs start from
Trees == {{Frame1, Frame2}, {Notes}, {VerDir}, {Plate}}

\* the files an application keeps writing anew: the autosave file
Rewritten == {Notes}

\* the original paths of the files the tree holds or has held
Known == {Origin(q) : q \in DOMAIN fs} \cup {Origin(d.path) : d \in deleted_log}

InitProject ==
    /\ today = 0
    /\ \E tree \in Trees, young \in SUBSET {Frame2, Notes} :
          fs = [p \in tree |-> FileAttr(p, IF p \in young THEN 0 ELSE OldMtime)]
    /\ delete_csv = [exists |-> FALSE, rows |-> <<>>]
    /\ protected_csv = [exists |-> FALSE, rows |-> <<>>]
    /\ pc = [r \in Procs |-> "idle"]
    /\ TIME_NOW = [r \in Procs |-> 0]
    /\ archive = [r \in Procs |-> FALSE]
    /\ archive_entries = [r \in Procs |-> << >>]
    /\ protected_entries = [r \in Procs |-> {}]
    /\ total_size_deleted = [r \in Procs |-> 0]
    /\ todo = [r \in Procs |-> {}]
    /\ deleted_log = {}
    /\ runs = 0
    /\ creates = 0
    /\ failures = 0
    /\ purged = FALSE
    /\ auto_cleanup \in BOOLEAN
    /\ ever_protected = {}

Init ==
    /\ InitProject
    /\ arg = NoCall
    /\ result = NoCall

\* how long a tree is followed: the tree with the file that is handled at
\* caution level 2 needs the longest grace period to run out
TimeBound == IF Plate \in Known THEN MaxTimeLong ELSE MaxTime

\* the clock advances; a run is short and ends on the day it starts
Tick ==
    /\ today < TimeBound
    /\ \A r \in Procs : pc[r] = "idle"
    /\ today' = today + 1
    /\ UNCHANGED <<fs, delete_csv, protected_csv, pc, TIME_NOW, archive,
                   archive_entries, protected_entries, total_size_deleted, todo,
                   deleted_log, runs, creates, failures, purged, auto_cleanup,
                   ever_protected,
                   arg, result>>

\* a user (or an application) writes a file at a path that is free
CreateFile(p) ==
    /\ creates < MaxCreates
    /\ \A r \in Procs : pc[r] = "idle"
    /\ p \in (Known \cap Rewritten) \ DOMAIN fs
    /\ fs' = With(fs, p, FileAttr(p, today))
    /\ creates' = creates + 1
    /\ UNCHANGED <<today, delete_csv, protected_csv, pc, TIME_NOW, archive,
                   archive_entries, protected_entries, total_size_deleted, todo,
                   deleted_log, runs, failures, purged, auto_cleanup,
                   ever_protected,
                   arg, result>>

\* paths a scanner can come up with: what is on disk, and the original
\* names of files that have been staged or removed since it listed them
Candidates == DOMAIN fs \cup Known

\* ArchiveProject(proj_code).clean(archive) up to the first scanner, in a
\* fresh interpreter: the module constants are captured, __init__ reads the
\* Ledger and the ProtectedSet, and get_shotgrid_data adds the directory of
\* every version the tracker reports as sent ('snt') to protected_entries.
\* purge() is run on a finaled project: no run follows it.  The scanners
\* of a run walk the whole tree: every path on disk is visited once, and so
\* is the original path of a file that is now staged.  For a project that the
\* tracker excludes from the clean up (sg_auto_cleanup unset) get_shotgrid_data
\* returns False, and clean_shots_by_status, the first scanner, calls .get()
\* on it: the AttributeError ends the process before anything is considered
\* or written.
Construct(r, archive_, snt) ==
    /\ runs' = runs + 1
    /\ IF auto_cleanup
       THEN /\ purged' = archive_
            /\ pc' = [pc EXCEPT ![r] = "scanning"]
            /\ TIME_NOW' = [TIME_NOW EXCEPT ![r] = today]
            /\ archive' = [archive EXCEPT ![r] = archive_]
            /\ archive_entries' = [archive_entries EXCEPT ![r] = read_archive_data(delete_csv)]
            /\ protected_entries' = [protected_entries EXCEPT ![r] =
                                        read_protected_data(protected_csv) \cup snt]
            /\ total_size_deleted' = [total_size_deleted EXCEPT ![r] = 0]
            /\ todo' = [todo EXCEPT ![r] = Candidates]
            /\ ever_protected' = ever_protected \cup read_protected_data(protected_csv) \cup snt
       ELSE /\ ever_protected' = ever_protected \cup read_protected_data(protected_csv)
            /\ UNCHANGED <<purged, pc, TIME_NOW, archive, archive_entries,
                           protected_entries, total_size_deleted, todo>>
    /\ UNCHANGED <<today, fs, delete_csv, protected_csv, deleted_log, creates,
                   failures, auto_cleanup,
                   arg, result>>

\* the scheduled job starts a run: clean_all takes the projects one after the
\* other, and nobody else is at work on this one
StartClean(r, archive_, snt) ==
    /\ pc[r] = "idle"
    /\ runs < MaxRuns
    /\ ~purged
    /\ \A o \in Procs \ {r} : pc[o] = "idle"
    /\ Construct(r, archive_, snt)

\* the state a consider call works on
CallState(r) ==
    [fs |-> fs,
     archive_entries |-> archive_entries[r],
     total_size_deleted |-> total_size_deleted[r],
     protected_entries |-> protected_entries[r],
     TIME_NOW |-> TIME_NOW[r],
     today |-> today,
     deleted_log |-> deleted_log,
     ret |-> <<>>,
     raised |-> FALSE]

\* the process ends on an uncaught exception: nothing is written, and what
\* the interpreter held is gone
Abort(r) ==
    /\ pc' = [pc EXCEPT ![r] = "idle"]
    /\ archive_entries' = [archive_entries EXCEPT ![r] = << >>]
    /\ protected_entries' = [protected_entries EXCEPT ![r] = {}]
    /\ total_size_deleted' = [total_size_deleted EXCEPT ![r] = 0]
    /\ archive' = [archive EXCEPT ![r] = FALSE]
    /\ TIME_NOW' = [TIME_NOW EXCEPT ![r] = 0]
    /\ todo' = [todo EXCEPT ![r] = {}]

\* the effect of a consider call that came back with state t
Commit(r, p, t, failed) ==
    /\ fs' = t.fs
    /\ deleted_log' = t.deleted_log
    /\ IF failed
       THEN Abort(r)
       ELSE /\ archive_entries' = [archive_entries EXCEPT ![r] = t.archive_entries]
            /\ total_size_deleted' = [total_size_deleted EXCEPT ![r] = t.total_size_deleted]
            /\ todo' = [todo EXCEPT ![r] = @ \ {p}]
            /\ UNCHANGED <<pc, protected_entries, archive, TIME_NOW>>

\* the arguments of the call sites
CreateTime == [has |-> TRUE, t |-> 0]
CallArgs(level, create_time, extra_data, symlink_path, unpacks) ==
    [caution_level |-> level, create_time |-> create_time,
     extra_data |-> extra_data, symlink_path |-> symlink_path,
     unpacks |-> unpacks]

\* the call sites that reach each file of the universe:
\*   the autosave file   clean_work_files, TEMP_FILE_PATTERNS (850-861)
\*   the two frames      clean_published_file_sources (688-699), which has
\*                       symlink paths for sources that are not staged yet
\*   the version folder  clean_shots_by_status, omitted versions (927-935)
\*   the plate           a call with the default arguments (1162-1171)
CallSites(p) ==
    LET o == Origin(p)
    IN IF o = Notes
       THEN {CallArgs(0, NoTime, [NoExtra EXCEPT !.reason = "Transient file"],
                      NoPath, TRUE)}
       ELSE IF o \in {Frame1, Frame2}
       THEN {CallArgs(1, CreateTime,
                      [publish_dir |-> "/proj/publish/v001", publish_id |-> "id1",
                       reason |-> "Already published"],
                      IF HasPrefix(NameOf(p)) THEN NoPath ELSE PubPath, TRUE)}
       ELSE IF o = VerDir
       THEN {CallArgs(0, NoTime, [NoExtra EXCEPT !.publish_id = "id1",
                                                 !.reason = "Omitted status"],
                      NoPath, FALSE)}
       ELSE {CallArgs(2, NoTime, NoExtra, NoPath, FALSE)}

AllOk == [delete_ok |-> TRUE, rename_ok |-> TRUE, symlink_ok |-> TRUE,
          glob_newest |-> FALSE]
\* what the operating system does to one call: at most one thing goes wrong
Envs == {AllOk,
         [AllOk EXCEPT !.delete_ok = FALSE],
         [AllOk EXCEPT !.rename_ok = FALSE],
         [AllOk EXCEPT !.symlink_ok = FALSE],
         [AllOk EXCEPT !.glob_newest = TRUE]}
Failing(env) == ~env.delete_ok \/ ~env.rename_ok \/ ~env.symlink_ok

\* a scanner calls consider_file_for_deletion; an operating system error is
\* one that the call runs into: the call comes out other than it would have
ConsiderFile(r, filepath, args, env) ==
    /\ pc[r] = "scanning"
    /\ filepath \in todo[r]
    /\ failures' = IF Failing(env) THEN failures + 1 ELSE failures
    /\ LET t == consider_file_for_deletion(CallState(r), filepath,
                    args.caution_level, archive[r], args.create_time,
                    args.extra_data, args.symlink_path, env)
           ok == consider_file_for_deletion(CallState(r), filepath,
                    args.caution_level, archive[r], args.create_time,
                    args.extra_data, args.symlink_path, AllOk)
           failed == t.raised \/ (args.unpacks /\ t.ret = <<>>)
       IN /\ Failing(env) => (failures < MaxFailures /\ t # ok)
          /\ Commit(r, filepath, t, failed)
    /\ UNCHANGED <<today, delete_csv, protected_csv, runs, creates, purged,
                   auto_cleanup, ever_protected,
                   arg, result>>

\* the tail of clean(): write_archive_data, write_protected_data
WriteData(r) ==
    /\ pc[r] = "scanning"
    /\ todo[r] = {}
    /\ delete_csv' = write_archive_data(delete_csv, archive_entries[r])
    /\ protected_csv' = write_protected_data(protected_csv, protected_entries[r])
    /\ pc' = [pc EXCEPT ![r] = "idle"]
    /\ archive_entries' = [archive_entries EXCEPT ![r] = << >>]
    /\ protected_entries' = [protected_entries EXCEPT ![r] = {}]
    /\ total_size_deleted' = [total_size_deleted EXCEPT ![r] = 0]
    /\ archive' = [archive EXCEPT ![r] = FALSE]
    /\ TIME_NOW' = [TIME_NOW EXCEPT ![r] = 0]
    /\ UNCHANGED <<today, fs, todo, deleted_log, runs, creates, failures, purged,
                   auto_cleanup, ever_protected,
                   arg, result>>

Next ==
    \/ Tick
    \/ \E p \in OrigPaths : CreateFile(p)
    \/ \E r \in Cron, a \in BOOLEAN, snt \in SUBSET ({VerDir} \cap Known) :
          StartClean(r, a, snt)
    \/ \E r \in Cron, env \in Envs : \E p \in todo[r] :
          \E args \in CallSites(p) : ConsiderFile(r, p, args, env)
    \/ \E r \in Cron : WriteData(r)

Spec == Init /\ [][Next]_vars

\* ---- runs that overlap
\* Nothing keeps a second interpreter from running clean() on the project
\* while a run is under way (there is no lock file and no lock on the two
\* CSV files): somebody starts one by hand while the scheduled job is at work.
\* The trees are those with one file; the operating system does as it is asked.
StartOverlapping(r, archive_, snt) ==
    /\ pc[r] = "idle"
    /\ runs < MaxRuns
    /\ ~purged
    /\ Construct(r, archive_, snt)

InitOverlap == Init /\ Cardinality(DOMAIN fs) = 1 /\ auto_cleanup

NextOverlap ==
    \/ Tick
    \/ \E r \in Procs, a \in BOOLEAN, snt \in SUBSET ({VerDir} \cap Known) :
          StartOverlapping(r, a, snt)
    \/ \E r \in Procs : \E p \in todo[r] :
          \E args \in CallSites(p) : ConsiderFile(r, p, args, AllOk)
    \/ \E r \in Procs : WriteData(r)

SpecOverlap == InitOverlap /\ [][NextOverlap]_vars

\* ---- runs that are killed
\* "the process runs to completion or is killed externally": a run that is
\* killed ends where it is, with what it renamed and deleted done and nothing
\* written.  The runs are those of the scheduled job; the operating system
\* does as it is asked.
Kill(r) ==
    /\ pc[r] = "scanning"
    /\ failures < MaxFailures
    /\ failures' = failures + 1
    /\ Abort(r)
    /\ UNCHANGED <<today, fs, delete_csv, protected_csv, deleted_log, runs,
                   creates, purged, auto_cleanup, ever_protected,
                   arg, result>>

NextKill ==
    \/ Tick
    \/ \E r \in Cron, a \in BOOLEAN, snt \in SUBSET ({VerDir} \cap Known) :
          StartClean(r, a, snt)
    \/ \E r \in Cron : \E p \in todo[r] :
          \E args \in CallSites(p) : ConsiderFile(r, p, args, AllOk)
    \/ \E r \in Cron : WriteData(r)
    \/ \E r \in Cron : Kill(r)

SpecKill == Init /\ [][NextKill]_vars

\* ---- runs on a system without faults
\* The scheduled job, users who write files, and an operating system that
\* does every rename, delete and link it is asked for; glob lists the oldest
\* staged match first.
NextNoFault ==
    \/ Tick
    \/ \E p \in OrigPaths : CreateFile(p)
    \/ \E r \in Cron, a \in BOOLEAN, snt \in SUBSET ({VerDir} \cap Known) :
          StartClean(r, a, snt)
    \/ \E r \in Cron : \E p \in todo[r] :
          \E args \in CallSites(p) : ConsiderFile(r, p, args, AllOk)
    \/ \E r \in Cron : WriteData(r)

SpecNoFault == Init /\ [][NextNoFault]_vars

\* ---- a batch call on its own
\* consider_filepaths_for_deletion is given the names of one directory (the
\* scanners pass directory listings, glob results and the paths of an entry):
\* files named by a version and a frame number, and a file without digits.
ShotFile(v, f) == Join(WorkDir, <<"shot_v", v, ".", f, ".", "exr">>)
Readme == Join(WorkDir, <<"notes", ".", "txt">>)
BatchFiles == {ShotFile(v, f) : v \in {"1", "2"}, f \in FrameNumbers} \cup {Readme}

\* the longest list that is passed
MaxBatch == 3
BatchLists ==
    UNION {{q \in [1..n -> BatchFiles] : \A i, j \in 1..n : q[i] = q[j] => i = j} :
             n \in 1..MaxBatch}

\* the published file of a source file: its place in symlink_paths is the
\* place of the source file in filepaths (clean_published_source_files)
PubOf(p) == Join(Join(ProjDir, <<"publish">>), NameOf(p))
PubList(q) == SymlinkList([i \in 1..Len(q) |-> PubOf(q[i])])

\* the calls of consider_file_for_deletion that the loop over a collection,
\* or over the remainders, makes when no call raises: the filepath and the
\* symlink_path of each
CallsOver(members, symlink_paths) ==
    [i \in 1..Len(members) |->
        [filepath |-> members[i], symlink_path |-> SymlinkAt(symlink_paths, i)]]

RECURSIVE CallsOverCollections(_, _, _)
CallsOverCollections(collections, index, symlink_paths) ==
    IF index > Len(collections) THEN <<>>
    ELSE CallsOver(collections[index], symlink_paths)
         \o CallsOverCollections(collections, index + 1, symlink_paths)

\* the calls that consider_filepaths_for_deletion makes, in order
Handed(filepaths, symlink_paths) ==
    IF symlink_paths.has
       /\ \/ symlink_paths.list = <<>>
          \/ Len(symlink_paths.list) # Len(filepaths)
          \/ symlink_paths.list[1][2] # filepaths[1][2]
    THEN <<>>
    ELSE LET found == assemble(filepaths)
         IN CallsOverCollections(found.collections, 1, symlink_paths)
            \o CallsOver(found.remainders, symlink_paths)

InitBatch ==
    /\ InitProject
    /\ DOMAIN fs = {Notes} /\ fs[Notes].mtime = OldMtime /\ auto_cleanup
    /\ \E q \in BatchLists, sl \in BOOLEAN :
          arg = [filepaths |-> q,
                 symlink_paths |-> IF sl THEN PubList(q) ELSE NoSymlinks]
    /\ result = NoCall

CallFilepaths ==
    /\ arg # NoCall /\ result = NoCall
    /\ result' = [calls |-> Handed(arg.filepaths, arg.symlink_paths)]
    /\ UNCHANGED <<today, fs, delete_csv, protected_csv, pc, TIME_NOW, archive,
                   archive_entries, protected_entries, total_size_deleted, todo,
                   deleted_log, runs, creates, failures, purged, auto_cleanup,
                   ever_protected, arg>>

NextBatch == CallFilepaths

SpecBatch == InitBatch /\ [][NextBatch]_vars

\* ---- staging a name and stripping the prefix again
\* File names are made of text, "(" and ")"; a file is staged on some day
\* and a later call strips the prefix from the staged name.
NameTokens == {"a", "(", ")"}
MaxName == 3
MaxDate == 2
Names == UNION {[1..n -> NameTokens] : n \in 1..MaxName}

InitStrip ==
    /\ InitProject
    /\ DOMAIN fs = {Notes} /\ fs[Notes].mtime = OldMtime /\ auto_cleanup
    /\ \E n \in Names, d \in 0..MaxDate : arg = [original_name |-> n, date |-> d]
    /\ result = NoCall

\* new_name = f"{TIME_DELETE_PREFIX}{original_name}" (expunge.py 1290), and
\* DELETE_PREFIX_RE.sub("", ...) on that name in a later call (1223)
StageAndStrip ==
    /\ arg # NoCall /\ result = NoCall
    /\ LET new_name == TIME_DELETE_PREFIX(arg.date) \o arg.original_name
       IN result' = [staged |-> new_name, stripped |-> StripPrefix(new_name)]
    /\ UNCHANGED <<today, fs, delete_csv, protected_csv, pc, TIME_NOW, archive,
                   archive_entries, protected_entries, total_size_deleted, todo,
                   deleted_log, runs, creates, failures, purged, auto_cleanup,
                   ever_protected, arg>>

NextStrip == StageAndStrip

SpecStrip == InitStrip /\ [][NextStrip]_vars

\* ---- old version folders
\* A task directory holds the version folders v1, v2, ... of one product;
\* users publish new versions, and the scheduled job prunes the old ones.
\* The operating system does as it is asked.
PROTECTED_OLD_VERSIONS == {"comp", "paint"}

\* the most version folders a directory starts with
MaxVersions == 8
\* a directory is followed up to the version after those
VersionNumbers == 1..(MaxVersions + 1)
\* the digits of a version number, and the number that digits stand for
VersionText == [v \in VersionNumbers |-> ToString(v)]
VersionTokens == {VersionText[v] : v \in VersionNumbers}
VersionTable == [tok \in VersionTokens |-> CHOOSE v \in VersionNumbers : VersionText[v] = tok]
VersionOf(tok) == VersionTable[tok]

AnimDir == Join(ProjDir, <<"anim">>)
CompDir == Join(ProjDir, <<"pre", "Comp">>)
PublishDir == Join(ProjDir, <<"publish">>)
VersionDirs == {AnimDir, CompDir, PublishDir}
VersionFolder(dirpath, v) == Join(dirpath, <<"v", VersionText[v]>>)

\* str.lower() of a piece of a directory name
Lower(tok) == IF tok = "Comp" THEN "comp" ELSE tok
\* protected_name in dirpath.lower()
InLower(protected_name, dirpath) ==
    \E i \in DOMAIN dirpath : \E j \in DOMAIN dirpath[i] :
        Lower(dirpath[i][j]) = protected_name
\* "/publish" in dirpath
InPublish(dirpath) == \E i \in DOMAIN dirpath : dirpath[i][1] = "publish"

\* the dirnames that os.walk lists for dirpath
Dirnames(fs_, dirpath) ==
    {NameOf(p) : p \in {q \in DOMAIN fs_ : DirOf(q) = dirpath /\ fs_[q].kind = "dir"}}

\* clique.assemble(dirnames, patterns=[clique.PATTERNS["versions"]]): the
\* index of a name is a run of digits that follows a "v"; the names that
\* agree on what is before and after it form a collection when there are at
\* least two of them
VersionKeys(n) ==
    {[head |-> SubSeq(n, 1, j - 1), tail |-> SubSeq(n, j + 1, Len(n))] :
        j \in {i \in 2..Len(n) : n[i - 1] = "v" /\ n[i] \in VersionTokens}}
VersionMembers(dirnames, k) == {n \in dirnames : k \in VersionKeys(n)}
version_collections(dirnames) ==
    {k \in UNION {VersionKeys(n) : n \in dirnames} :
        Cardinality(VersionMembers(dirnames, k)) >= 2}
\* the orders in which the collections may come
CollectionOrders(dirnames) ==
    LET keys == version_collections(dirnames)
    IN {q \in [1..Cardinality(keys) -> keys] : \A i, j \in DOMAIN q : q[i] = q[j] => i = j}

\* list(version_collection): the names by ascending index
RECURSIVE Ascending(_)
Ascending(S) ==
    IF S = {} THEN <<>>
    ELSE LET m == CHOOSE x \in S : \A y \in S : x <= y
         IN <<m>> \o Ascending(S \ {m})
NameAt(k, v) == k.head \o <<VersionText[v]>> \o k.tail
version_folders(dirnames, k) ==
    LET indexes == Ascending({VersionOf(n[Len(k.head) + 1]) : n \in VersionMembers(dirnames, k)})
    IN [i \in 1..Len(indexes) |-> NameAt(k, indexes[i])]

\* keep_versions as clean() sets it (expunge.py 172-175)
keep_versions(archive_) == IF archive_ THEN 3 ELSE 5
keep_versions_offset(dirpath) ==
    IF \E protected_name \in PROTECTED_OLD_VERSIONS : InLower(protected_name, dirpath)
    THEN 2 ELSE 0

\* while len(version_folders) > keep_versions + keep_versions_offset
MoreThan_mut_ge(n, keep) == n >= keep
MoreThan(n, keep) == n > keep

\* the folders that the while loop pops, in order
RECURSIVE Popped(_, _)
Popped(folders, keep) ==
    IF MoreThan(Len(folders), keep)
    THEN <<Head(folders)>> \o Popped(Tail(folders), keep)
    ELSE <<>>

\* the folders of one collection that are passed on: all of a collection of
\* staged folders, the popped ones otherwise
FoldersToDelete(dirnames, dirpath, k, archive_) ==
    LET names == IF HasPrefix(k.head)
                 THEN version_folders(dirnames, k)
                 ELSE Popped(version_folders(dirnames, k),
                             keep_versions(archive_) + keep_versions_offset(dirpath))
    IN [i \in 1..Len(names) |-> Join(dirpath, names[i])]

RECURSIVE FoldersOfCollections(_, _, _, _, _)
FoldersOfCollections(dirnames, dirpath, order, index, archive_) ==
    IF index > Len(order) THEN <<>>
    ELSE FoldersToDelete(dirnames, dirpath, order[index], archive_)
         \o FoldersOfCollections(dirnames, dirpath, order, index + 1, archive_)

\* the folders clean_old_versions passes to consider_file_for_deletion for
\* one directory of the walk
OldVersionCalls(s, dirpath, order, archive_) ==
    IF ~archive_ /\ InPublish(dirpath) THEN <<>>
    ELSE IF dirpath \in s.protected_entries THEN <<>>
    ELSE FoldersOfCollections(Dirnames(s.fs, dirpath), dirpath, order, 1, archive_)

OldVersionData == [NoExtra EXCEPT !.reason = "Old version folder"]

RECURSIVE ConsiderFolders(_, _, _)
ConsiderFolders(s, folders, archive_) ==
    IF folders = <<>> THEN s
    ELSE ConsiderFolders(
             consider_file_for_deletion(s, Head(folders), 1, archive_, NoTime,
                                        OldVersionData, NoPath, AllOk),
             Tail(folders), archive_)

InitVersions ==
    /\ today = 0
    /\ \E dirpath \in VersionDirs, n \in {MaxVersions - 4, MaxVersions} :
          fs = [p \in {VersionFolder(dirpath, v) : v \in 1..n} |-> FileAttr(VerDir, OldMtime)]
    /\ delete_csv = [exists |-> FALSE, rows |-> <<>>]
    /\ protected_csv = [exists |-> FALSE, rows |-> <<>>]
    /\ pc = [r \in Procs |-> "idle"]
    /\ TIME_NOW = [r \in Procs |-> 0]
    /\ archive = [r \in Procs |-> FALSE]
    /\ archive_entries = [r \in Procs |-> << >>]
    /\ protected_entries = [r \in Procs |-> {}]
    /\ total_size_deleted = [r \in Procs |-> 0]
    /\ todo = [r \in Procs |-> {}]
    /\ deleted_log = {}
    /\ runs = 0
    /\ creates = 0
    /\ failures = 0
    /\ purged = FALSE
    /\ auto_cleanup = TRUE
    /\ ever_protected = {}
    /\ arg = NoCall
    /\ result = NoCall

\* the clock advances
NextDay ==
    /\ today < MaxTime
    /\ \A r \in Procs : pc[r] = "idle"
    /\ today' = today + 1
    /\ UNCHANGED <<fs, delete_csv, protected_csv, pc, TIME_NOW, archive,
                   archive_entries, protected_entries, total_size_deleted, todo,
                   deleted_log, runs, creates, failures, purged, auto_cleanup,
                   ever_protected, arg, result>>

\* the version numbers a directory holds or has held
NumbersUsed ==
    {VersionOf(NameOf(p)[Len(NameOf(p))]) : p \in DOMAIN fs}
        \cup {VersionOf(NameOf(d.path)[Len(NameOf(d.path))]) : d \in deleted_log}

\* a user publishes the next version
PublishVersion(dirpath) ==
    /\ creates < MaxCreates
    /\ \A r \in Procs : pc[r] = "idle"
    /\ \E p \in DOMAIN fs \cup {d.path : d \in deleted_log} : DirOf(p) = dirpath
    /\ LET v == 1 + CHOOSE m \in NumbersUsed : \A w \in NumbersUsed : w <= m
       IN /\ v \in VersionNumbers
          /\ fs' = With(fs, VersionFolder(dirpath, v), FileAttr(VerDir, today))
    /\ creates' = creates + 1
    /\ UNCHANGED <<today, delete_csv, protected_csv, pc, TIME_NOW, archive,
                   archive_entries, protected_entries, total_size_deleted, todo,
                   deleted_log, runs, failures, purged, auto_cleanup,
                   ever_protected, arg, result>>

\* ArchiveProject(proj_code).clean(archive) up to clean_old_versions, in a
\* fresh interpreter; the tracker reports no version as sent or omitted, and
\* the walk will come to the directory that holds the version folders
StartVersions(r, archive_) ==
    /\ pc[r] = "idle"
    /\ runs < MaxRuns
    /\ ~purged
    /\ runs' = runs + 1
    /\ purged' = archive_
    /\ pc' = [pc EXCEPT ![r] = "scanning"]
    /\ TIME_NOW' = [TIME_NOW EXCEPT ![r] = today]
    /\ archive' = [archive EXCEPT ![r] = archive_]
    /\ archive_entries' = [archive_entries EXCEPT ![r] = read_archive_data(delete_csv)]
    /\ protected_entries' = [protected_entries EXCEPT ![r] = read_protected_data(protected_csv)]
    /\ total_size_deleted' = [total_size_deleted EXCEPT ![r] = 0]
    /\ todo' = [todo EXCEPT ![r] = {DirOf(p) : p \in DOMAIN fs}]
    /\ ever_protected' = ever_protected \cup read_protected_data(protected_csv)
    /\ UNCHANGED <<today, fs, delete_csv, protected_csv, deleted_log, creates,
                   failures, auto_cleanup, arg, result>>

\* clean_old_versions(keep_versions, archive) on the directory of the walk
\* that holds version folders; order is the order of the collections
clean_old_versions(r, dirpath, order) ==
    /\ pc[r] = "scanning"
    /\ dirpath \in todo[r]
    /\ LET folders == OldVersionCalls(CallState(r), dirpath, order, archive[r])
           t == ConsiderFolders(CallState(r), folders, archive[r])
       IN /\ fs' = t.fs
          /\ deleted_log' = t.deleted_log
          /\ archive_entries' = [archive_entries EXCEPT ![r] = t.archive_entries]
          /\ total_size_deleted' = [total_size_deleted EXCEPT ![r] = t.total_size_deleted]
          /\ result' = [calls |-> folders]
    /\ todo' = [todo EXCEPT ![r] = @ \ {dirpath}]
    /\ UNCHANGED <<today, delete_csv, protected_csv, pc, TIME_NOW, archive,
                   protected_entries, runs, creates, failures, purged,
                   auto_cleanup, ever_protected, arg>>

NextVersions ==
    \/ NextDay
    \/ \E dirpath \in VersionDirs : PublishVersion(dirpath)
    \/ \E r \in Cron, a \in BOOLEAN : StartVersions(r, a)
    \/ \E r \in Cron : \E dirpath \in todo[r] :
          \E order \in CollectionOrders(Dirnames(fs, dirpath)) :
              clean_old_versions(r, dirpath, order)
    \/ \E r \in Cron : WriteData(r)

SpecVersions == InitVersions /\ [][NextVersions]_vars

\* ------------------------------------------------------------- properties
\* q equals p or is a directory above p
IsUnder(p, q) == Len(q) <= Len(p) /\ SubSeq(p, 1, Len(q)) = q

\* a path is protected in the sense of the specification: it is a member of
\* protected_entries or lies under one
UnderProtected(prot, p) == \E q \in prot : IsUnder(p, q)

Scanning(r) == pc[r] = "scanning"

\* C1: a path that equals or lies under a member of the ProtectedSet is never
\* renamed, deleted, replaced by a symlink or given a Ledger entry by a
\* consider call, whatever the caution level and also with the force flag.
C1_ProtectedUntouched ==
    \A r \in Procs : Scanning(r) =>
        \A p \in DOMAIN fs : UnderProtected(protected_entries[r], p) =>
            \A l \in CautionLevels, a \in BOOLEAN, sl \in {NoPath, PubPath} :
                LET t == consider_file_for_deletion(CallState(r), p, l, a,
                             NoTime, NoExtra, sl, AllOk)
                IN t.fs = fs /\ t.archive_entries = archive_entries[r]

\* C2: in routine mode a file is removed only after a consider call staged
\* it, and only once the grace period of the level it was staged at has
\* passed since the day that file itself was staged.
C2_GraceBeforeDelete ==
    \A d \in deleted_log :
        ~d.forced => d.staged_at >= 0 /\ d.at >= d.staged_at + d.grace

\* a file on disk that carries the stage prefix
StagedFile(p) == p \in DOMAIN fs /\ HasPrefix(NameOf(p)) /\ fs[p].kind # "link"

\* the staged files of a scanning run whose Ledger key has an entry in
\* archive_entries and is not a member of protected_entries
StagedWithEntry(r) ==
    {p \in DOMAIN fs : /\ StagedFile(p)
                       /\ PathEntry(p) \in DOMAIN archive_entries[r]
                       /\ ~IsProtected(protected_entries[r], PathEntry(p))}

\* a routine consider call on p, at any caution level, with the operating
\* system doing as it is asked
Routine(r, p, l) ==
    consider_file_for_deletion(CallState(r), p, l, FALSE, NoTime, NoExtra,
                               NoPath, AllOk)

Untouched(r, t) == t.fs = fs /\ t.archive_entries = archive_entries[r]

C4_StagedIsDeleted ==
    \A r \in Procs : Scanning(r) /\ ~archive[r] /\ failures = 0 =>
        \A p \in todo[r] :
            (/\ StagedFile(p)
             /\ ~IsProtected(protected_entries[r], PathEntry(p))
             /\ today > fs[p].staged_at + fs[p].grace) =>
                \A args \in CallSites(p) :
                    LET t == consider_file_for_deletion(CallState(r), p,
                                 args.caution_level, FALSE, args.create_time,
                                 args.extra_data, args.symlink_path, AllOk)
                    IN t.ret = <<TRUE, FALSE>> /\ p \notin DOMAIN t.fs

\* the staged files on disk that come from the original path o
StagedFrom(o) == {p \in DOMAIN fs : StagedFile(p) /\ Origin(p) = o}

\* the rows of the persisted Ledger with path pattern k
RowsFor(csv, k) == {i \in 1..Len(csv.rows) : csv.rows[i].path = k}

\* C5: when frame 1001 was staged by one run and frame 1002 by a later run,
\* nothing having failed, the Ledger (in memory while the later run scans,
\* persisted once it has written) holds one entry for the pattern of the
\* sequence, whose paths contain both staged files and whose size is the
\* sum of the two file sizes.
C5_MergeAcrossRuns ==
    \A p1 \in StagedFrom(Frame1), p2 \in StagedFrom(Frame2) :
        LET K == PathEntry(Frame1)
            sum == fs[p1].st_size + fs[p2].st_size
        IN (failures = 0 /\ fs[p1].staged_at # fs[p2].staged_at) =>
              /\ \A r \in Procs : Scanning(r) =>
                    /\ {k \in DOMAIN archive_entries[r] :
                           DirOf(k) = DirOf(Frame1)} = {K}
                    /\ archive_entries[r][K].paths = {p1, p2}
                    /\ archive_entries[r][K].size = sum
              /\ (\A r \in Procs : ~Scanning(r)) =>
                    /\ Cardinality(RowsFor(delete_csv, K)) = 1
                    /\ \A i \in RowsFor(delete_csv, K) :
                          /\ literal_eval(delete_csv.rows[i].paths) = {p1, p2}
                          /\ delete_csv.rows[i].size = sum

\* both frames are staged, by different runs, and the later run has written
C5_Witness ==
    /\ failures = 0
    /\ \A r \in Procs : ~Scanning(r)
    /\ \E p1 \in StagedFrom(Frame1), p2 \in StagedFrom(Frame2) :
          /\ fs[p1].staged_at # fs[p2].staged_at
          /\ RowsFor(delete_csv, PathEntry(Frame1)) # {}

\* a file that is not staged and is younger than the warning window of level l
Young(r, p, l) ==
    /\ p \in DOMAIN fs /\ ~HasPrefix(NameOf(p)) /\ fs[p].kind # "link"
    /\ fs[p].mtime > TIME_NOW[r] - WARNING_THRESHOLDS[l]

\* C6: two routine consider calls in a row on a file that is not staged, is
\* younger than its warning window and whose key is not protected both
\* return (false, false), rename nothing and add no Ledger entry.
C6_IdempotentKeep ==
    \A r \in Procs : Scanning(r) =>
        \A p \in DOMAIN fs, l \in CautionLevels :
            (Young(r, p, l) /\ ~IsProtected(protected_entries[r], PathEntry(p))) =>
              \A ct \in {NoTime, CreateTime}, sl \in {NoPath, PubPath} :
                LET t1 == consider_file_for_deletion(CallState(r), p, l, FALSE,
                              ct, NoExtra, sl, AllOk)
                    t2 == consider_file_for_deletion([t1 EXCEPT !.ret = <<>>],
                              p, l, FALSE, ct, NoExtra, sl, AllOk)
                IN /\ t1.ret = <<FALSE, FALSE>> /\ t2.ret = <<FALSE, FALSE>>
                   /\ Untouched(r, t1) /\ Untouched(r, t2)
                   /\ DOMAIN t2.archive_entries = DOMAIN archive_entries[r]

\* a scanner has just considered a young file and kept it
C6_Witness ==
    \E r \in Procs :
        /\ Scanning(r) /\ ~archive[r]
        /\ \E p \in DOMAIN fs \ todo[r] :
              /\ \E args \in CallSites(p) : Young(r, p, args.caution_level)
              /\ PathEntry(p) \notin DOMAIN archive_entries[r]

\* the Ledger a run would load right after this run wrote its own
Reloaded(r) == read_archive_data(write_archive_data(delete_csv, archive_entries[r]))

\* an entry with every optional field it lacks set to the missing value
WithMissing(e) ==
    [e EXCEPT !.publish_dir = IF @ = Absent THEN NaN ELSE @,
              !.publish_id = IF @ = Absent THEN NaN ELSE @,
              !.reason = IF @ = Absent THEN NaN ELSE @]

\* C7 as stated: writing the Ledger and reading it back gives, for every
\* in-memory entry that is not deleted, an entry under the same key with the
\* same fields, and gives no deleted entry.
C7_RoundTrip ==
    \A r \in Procs : Scanning(r) =>
        /\ \A k \in DOMAIN archive_entries[r] :
              ~archive_entries[r][k].is_deleted =>
                  k \in DOMAIN Reloaded(r) /\ Reloaded(r)[k] = archive_entries[r][k]
        /\ \A k \in DOMAIN Reloaded(r) : ~Reloaded(r)[k].is_deleted

\* C7 amended: the round trip keeps marked_time, delete_time, size,
\* is_deleted, paths and every optional field that is set; an optional field
\* the entry lacks comes back as the missing value; no deleted entry is
\* loaded, and none under the key of a deleted in-memory entry.
C7_RoundTripUpToMissing ==
    \A r \in Procs : Scanning(r) =>
        /\ \A k \in DOMAIN archive_entries[r] :
              IF archive_entries[r][k].is_deleted
              THEN k \notin DOMAIN Reloaded(r)
              ELSE /\ k \in DOMAIN Reloaded(r)
                   /\ Reloaded(r)[k] = WithMissing(archive_entries[r][k])
        /\ \A k \in DOMAIN Reloaded(r) : ~Reloaded(r)[k].is_deleted

\* a run is about to write, over a persisted Ledger, a live entry with
\* staged paths that lacks an optional field
C7_Witness ==
    \E r \in Procs :
        /\ Scanning(r) /\ todo[r] = {} /\ delete_csv.exists
        /\ \E k \in DOMAIN archive_entries[r] :
              /\ archive_entries[r][k].paths # {}
              /\ ~archive_entries[r][k].is_deleted
              /\ archive_entries[r][k].publish_dir = Absent

\* the step in which run r writes the Ledger
Writes(r) == pc[r] = "scanning" /\ todo[r] = {} /\ pc'[r] = "idle"

C9_DeletedEntryFrozen ==
    [][\A r \in Procs :
          /\ (pc[r] = "scanning" /\ pc'[r] = "scanning") =>
                \A k \in DOMAIN archive_entries[r] :
                    archive_entries[r][k].is_deleted =>
                        /\ k \in DOMAIN archive_entries'[r]
                        /\ archive_entries'[r][k] = archive_entries[r][k]
          /\ (pc[r] = "idle" /\ pc'[r] = "scanning") =>
                \A k \in DOMAIN archive_entries'[r] :
                    ~archive_entries'[r][k].is_deleted]_vars

\* C9 amended: once an entry has is_deleted=true, the consider calls of the
\* run keep is_deleted, marked_time, delete_time and the optional fields as
\* they are, while its paths and size can still grow, by files with the same
\* key that are deleted or staged later in the run; a later run does not
\* load the entry.
C9_DeletedEntryOnlyGrows ==
    [][\A r \in Procs :
          /\ (pc[r] = "scanning" /\ pc'[r] = "scanning") =>
                \A k \in DOMAIN archive_entries[r] :
                    LET e == archive_entries[r][k]
                    IN e.is_deleted =>
                          /\ k \in DOMAIN archive_entries'[r]
                          /\ archive_entries'[r][k] =
                                [e EXCEPT !.paths = archive_entries'[r][k].paths,
                                          !.size = archive_entries'[r][k].size]
                          /\ e.paths \subseteq archive_entries'[r][k].paths
                          /\ e.size <= archive_entries'[r][k].size
          /\ (pc[r] = "idle" /\ pc'[r] = "scanning") =>
                \A k \in DOMAIN archive_entries'[r] :
                    ~archive_entries'[r][k].is_deleted]_vars

\* the run has deleted two files with the same key: the second one was
\* folded into an entry that already had is_deleted=true
C9_Witness ==
    \E r \in Procs :
        /\ Scanning(r)
        /\ \E k \in DOMAIN archive_entries[r] :
              /\ archive_entries[r][k].is_deleted
              /\ \E d1, d2 \in deleted_log :
                    /\ d1.path # d2.path
                    /\ {d1.path, d2.path} \subseteq archive_entries[r][k].paths
                    /\ d1.at = today /\ d2.at = today
                    /\ d1.path \notin DOMAIN fs /\ d2.path \notin DOMAIN fs

\* C10: a row persisted with is_deleted=true is never loaded into the
\* in-memory Ledger, and no step removes or alters it in the persisted
\* table.
C10_DeletedRowsKept ==
    [][/\ \A i \in 1..Len(delete_csv.rows) :
             delete_csv.rows[i].is_deleted =>
                 delete_csv.rows[i] \in Range(delete_csv'.rows)
       /\ \A r \in Procs : (pc[r] = "idle" /\ pc'[r] = "scanning") =>
             \A k \in DOMAIN archive_entries'[r] :
                 ~archive_entries'[r][k].is_deleted]_vars

\* ---- batches: the source files of a published version, as
\* clean_published_file_sources hands them to consider_filepaths_for_deletion
FrameFiles == {p \in DOMAIN fs : fs[p].kind = "file" /\ IsFrameName(NameOf(p))}
Orderings(S) == {q \in [1..Cardinality(S) -> S] : \A x \in S : \E i \in DOMAIN q : q[i] = x}
PublishedBatch(r, q) ==
    [caution_level |-> 1, archive |-> archive[r], create_time |-> CreateTime,
     extra_data |-> [publish_dir |-> "/proj/publish/v001", publish_id |-> "id1",
                     reason |-> "Already published"],
     symlink_paths |-> IF \E i \in DOMAIN q : HasPrefix(NameOf(q[i]))
                       THEN NoSymlinks
                       ELSE SymlinkList([i \in DOMAIN q |-> PubPath])]
\* the operating system fails the call on p as env says, and no other call
EnvOf(q, p, env) == [x \in {q[i] : i \in DOMAIN q} |-> IF x = p THEN env ELSE AllOk]
\* what a batch call that came back with state t did to member p
MemberDeleted(t, p) == p \notin DOMAIN t.fs
MemberStaged(r, t, p) ==
    LET n == Join(DirOf(p), TIME_DELETE_PREFIX(TIME_NOW[r]) \o NameOf(p))
    IN n \in DOMAIN t.fs /\ n \notin DOMAIN fs
ResultIsOr(r, t, c) ==
    /\ ~t.raised
    /\ t.ret = << \E j \in DOMAIN c : MemberDeleted(t, c[j]),
                  \E j \in DOMAIN c : MemberStaged(r, t, c[j]) >>

\* C11: when the delete of one member of a collection fails with an
\* operating system error, consider_collection_for_deletion does not raise;
\* the member stays on disk as it was and is not recorded (it is not added to
\* the paths of an entry, and its size is not in total_size_deleted); every
\* other member is handled as it is when nothing fails; and the result of the
\* collection is the OR of what happened to its members: (True, False) when
\* a member was deleted and none staged.
C11_FailedDeleteSkipped ==
    \A r \in Procs : Scanning(r) =>
        LET q == SetToSeq(FrameFiles)
        IN  \A c \in Range(assemble(q).collections) :
                LET a == PublishedBatch(r, q)
                    u == consider_collection_for_deletion(CallState(r), c, a, EnvOf(q, NoPath, AllOk))
                IN /\ ResultIsOr(r, u, c)
                   /\ \A i \in DOMAIN c :
                        LET t == consider_collection_for_deletion(CallState(r), c, a,
                                     EnvOf(q, c[i], [AllOk EXCEPT !.delete_ok = FALSE]))
                        IN MemberDeleted(u, c[i]) =>
                             /\ ResultIsOr(r, t, c)
                             /\ c[i] \in DOMAIN t.fs /\ t.fs[c[i]] = fs[c[i]]
                             /\ t.total_size_deleted = u.total_size_deleted - fs[c[i]].st_size
                             /\ \A k \in DOMAIN t.archive_entries :
                                   c[i] \in t.archive_entries[k].paths =>
                                      /\ k \in DOMAIN archive_entries[r]
                                      /\ c[i] \in archive_entries[r][k].paths
                             /\ \A j \in DOMAIN c \ {i} :
                                   /\ MemberDeleted(t, c[j]) = MemberDeleted(u, c[j])
                                   /\ MemberDeleted(t, c[j]) =>
                                         \E k \in DOMAIN t.archive_entries :
                                            /\ c[j] \in t.archive_entries[k].paths
                                            /\ t.archive_entries[k].is_deleted

\* a run in which the delete of one frame failed and the other frame was
\* deleted and recorded
C11_Witness ==
    \E r \in Procs :
        /\ Scanning(r) /\ failures > 0
        /\ \E p \in FrameFiles \ todo[r], d \in deleted_log :
              /\ Origin(p) # Origin(d.path) /\ d.at = today
              /\ IsFrameName(NameOf(d.path))
              /\ Cardinality(CliqueKeys(p) \cap CliqueKeys(d.path)) > 0
              /\ \E k \in DOMAIN archive_entries[r] :
                    /\ d.path \in archive_entries[r][k].paths
                    /\ p \notin archive_entries[r][k].paths
              /\ LET q == <<p, d.path>>
                     c == <<p>>
                 IN consider_collection_for_deletion(CallState(r), c,
                        PublishedBatch(r, q), EnvOf(q, NoPath, AllOk)).ret = <<TRUE, FALSE>>

\* C12: while consider_filepaths_for_deletion works through a batch, one
\* member for which the operating system fails (the staging rename or the
\* symlink raises, or the delete fails) is skipped: no exception leaves the
\* batch function, and every other member is handled as it is when nothing
\* fails.
C12_BatchSkipsFailure ==
    \A r \in Procs : Scanning(r) =>
        \A q \in Orderings(FrameFiles) : \A i \in DOMAIN q :
            \A env \in {e \in Envs : Failing(e)} :
                LET a == PublishedBatch(r, q)
                    u == consider_filepaths_for_deletion(CallState(r), q, a, EnvOf(q, NoPath, AllOk))
                    t == consider_filepaths_for_deletion(CallState(r), q, a, EnvOf(q, q[i], env))
                IN /\ ~t.raised
                   /\ \A j \in DOMAIN q \ {i} :
                         /\ MemberDeleted(t, q[j]) = MemberDeleted(u, q[j])
                         /\ MemberStaged(r, t, q[j]) = MemberStaged(r, u, q[j])

\* the paths on disk whose Ledger key is a member of protected_entries
ProtectedOnDisk(r) ==
    {p \in DOMAIN fs : /\ fs[p].kind # "link"
                       /\ IsProtected(protected_entries[r], PathEntry(p))}

\* C13: for a path whose Ledger key is in the ProtectedSet
\* consider_file_for_deletion returns (False, False), whatever the caution
\* level and the force flag, and a batch function that unpacks the result
\* (as the scanners that unpack it do) raises nothing and goes on.
C13_ProtectedReturnsPair ==
    \A r \in Procs : Scanning(r) =>
        \A p \in ProtectedOnDisk(r), l \in CautionLevels, force \in BOOLEAN :
            LET t == consider_file_for_deletion(CallState(r), p, l, force,
                                                NoTime, NoExtra, NoPath, AllOk)
                a == [caution_level |-> l, archive |-> force,
                      create_time |-> NoTime, extra_data |-> NoExtra,
                      symlink_paths |-> NoSymlinks]
                b == consider_filepaths_for_deletion(CallState(r), <<p>>, a,
                                                     EnvOf(<<p>>, NoPath, AllOk))
            IN /\ t.ret = <<FALSE, FALSE>>
               /\ ~b.raised /\ b.ret = <<FALSE, FALSE>>

\* the step in which the run of process r ends
RunOver(r) == pc[r] = "scanning" /\ pc'[r] = "idle"
\* the step of a run that is over before its first scanner has considered
\* anything
RunCutShort == runs' # runs /\ pc' = pc

\* C14: every run of clean(), routine or forced, ends by writing the Ledger
\* and the ProtectedSet (after its scanners), whatever happened to the single
\* paths and also for a project the tracker excludes from the clean up: the
\* step that ends a run is the one that writes both files.
C14_RunEndsByWriting ==
    [][/\ ~RunCutShort
       /\ \A r \in Procs : RunOver(r) =>
             /\ todo[r] = {}
             /\ delete_csv' = write_archive_data(delete_csv, archive_entries[r])
             /\ protected_csv' = write_protected_data(protected_csv, protected_entries[r])
             /\ delete_csv'.exists /\ protected_csv'.exists]_vars

\* ---- the stage decision
\* the paths on disk that do not carry the stage prefix and whose Ledger key
\* is not protected
Unstaged(r) ==
    {p \in DOMAIN fs : /\ ~HasPrefix(NameOf(p))
                       /\ ~IsProtected(protected_entries[r], PathEntry(p))}
\* the create_time arguments that do not trigger the post-publish rule for p
NoTrigger(p) == {NoTime, [has |-> TRUE, t |-> fs[p].mtime]}
\* the call staged p: it is renamed to the name with the stage prefix of the
\* run and is in the paths of its entry; an entry that was not there before
\* is not deleted, is marked now and is due after the grace period of the
\* level (2, 5 and 10 days)
StagedByCall(r, t, p, l) ==
    LET n == Join(DirOf(p), TIME_DELETE_PREFIX(TIME_NOW[r]) \o NameOf(p))
        k == PathEntry(p)
        grace == (0 :> 2) @@ (1 :> 5) @@ (2 :> 10)
    IN /\ t.ret = <<FALSE, TRUE>>
       /\ n \in DOMAIN t.fs /\ n \notin DOMAIN fs
       /\ k \in DOMAIN t.archive_entries /\ n \in t.archive_entries[k].paths
       /\ k \notin DOMAIN archive_entries[r] =>
             /\ t.archive_entries[k].is_deleted = FALSE
             /\ t.archive_entries[k].marked_time = TIME_NOW[r]
             /\ t.archive_entries[k].delete_time = TIME_NOW[r] + grace[l]
StageIffStale(r, p) ==
    \A l \in CautionLevels, ct \in NoTrigger(p), sl \in {NoPath, PubPath} :
        LET t == consider_file_for_deletion(CallState(r), p, l, FALSE, ct,
                                            NoExtra, sl, AllOk)
            window == (0 :> 2) @@ (1 :> 3) @@ (2 :> 8)
        IN IF fs[p].mtime <= TIME_NOW[r] - window[l]
           THEN StagedByCall(r, t, p, l)
           ELSE t.ret = <<FALSE, FALSE>> /\ Untouched(r, t)

\* C15 as stated: with force off and no post-publish trigger, a path that is
\* not staged yet and not protected is staged if and only if its mtime is not
\* newer than now minus the warning window of the level (2, 3, 8 days), and
\* is left untouched otherwise; staging a path that has no entry creates one
\* with is_deleted = false, marked_time = now and delete_time = marked_time
\* plus the grace period of the level (2, 5, 10 days).
C15_StageIffStale ==
    \A r \in Procs : Scanning(r) => \A p \in Unstaged(r) : StageIffStale(r, p)

\* C15, amended: the same for a path that is not a symbolic link.
C15_StageIffStaleNoLink ==
    \A r \in Procs : Scanning(r) =>
        \A p \in Unstaged(r) : fs[p].kind # "link" => StageIffStale(r, p)

\* a run has staged a file that had no entry
C15_Witness ==
    \E r \in Procs :
        /\ Scanning(r) /\ ~archive[r]
        /\ \E p \in DOMAIN fs :
              /\ StagedFile(p) /\ fs[p].staged_at = TIME_NOW[r]
              /\ \E k \in DOMAIN archive_entries[r] :
                    /\ archive_entries[r][k].paths = {p}
                    /\ archive_entries[r][k].marked_time = TIME_NOW[r]
                    /\ ~archive_entries[r][k].is_deleted

\* ---- the post-publish rule
\* publish times that lie before the last modification of p
Before(p) == {[has |-> TRUE, t |-> fs[p].mtime - 1]}

\* C16: a path that does not carry the stage prefix, considered with force
\* off and with a create_time that lies before its mtime, is kept, whatever
\* its age and the caution level: nothing is renamed, deleted or linked and
\* the Ledger of the run is as it was (the call leaves the state it works
\* on as it found it, and raises nothing).
C16_KeptWhenModifiedAfterPublish ==
    \A r \in Procs : Scanning(r) =>
        \A p \in {x \in DOMAIN fs : ~HasPrefix(NameOf(x))} :
            \A l \in CautionLevels \cup {NoCaution}, ct \in Before(p) :
                LET t == consider_file_for_deletion(CallState(r), p, l, FALSE,
                                                    ct, NoExtra, PubPath, AllOk)
                IN t = [CallState(r) EXCEPT !.ret = t.ret]

\* a scanner is about to consider a file that is stale at its level, and
\* that a call with a publish time before its mtime keeps while a call
\* without one stages it
C16_Witness ==
    \E r \in Procs :
        /\ Scanning(r) /\ ~archive[r]
        /\ \E p \in todo[r] \cap Unstaged(r) : \E args \in CallSites(p) :
              /\ fs[p].kind = "file"
              /\ consider_file_for_deletion(CallState(r), p, args.caution_level,
                     FALSE, NoTime, args.extra_data, args.symlink_path,
                     AllOk).ret = <<FALSE, TRUE>>
              /\ \A ct \in Before(p) :
                    consider_file_for_deletion(CallState(r), p, args.caution_level,
                        FALSE, ct, args.extra_data, args.symlink_path,
                        AllOk).ret = <<FALSE, FALSE>>

\* ---- no caution level
\* the paths on disk whose Ledger key has no entry in the run
NoEntry(r) == {p \in DOMAIN fs : PathEntry(p) \notin DOMAIN archive_entries[r]}

\* C17: a path that has no Ledger entry and is considered with no caution
\* level (as clean_existing_entries does) is not renamed, deleted or linked
\* and the Ledger is not changed (the call leaves the state it works on as
\* it found it, and raises nothing), also when the force flag is set and when
\* the name carries the stage prefix; the call returns (False, False).  (For
\* a key that is in the ProtectedSet the protection test comes first and the
\* call returns what C13 is about.)
C17_NoLevelNoEntrySkipped ==
    \A r \in Procs : Scanning(r) =>
        \A p \in NoEntry(r), force \in BOOLEAN :
            LET t == consider_file_for_deletion(CallState(r), p, NoCaution,
                                                force, NoTime, NoExtra, NoPath, AllOk)
            IN /\ t = [CallState(r) EXCEPT !.ret = t.ret]
               /\ ~IsProtected(protected_entries[r], PathEntry(p)) =>
                     t.ret = <<FALSE, FALSE>>

\* a forced run is about to consider a file that carries the stage prefix
\* and has no entry: the scanner's call deletes it, a call without a caution
\* level leaves it
C17_Witness ==
    \E r \in Procs :
        /\ Scanning(r) /\ archive[r]
        /\ \E p \in todo[r] \cap NoEntry(r) : \E args \in CallSites(p) :
              /\ StagedFile(p)
              /\ consider_file_for_deletion(CallState(r), p, args.caution_level,
                     TRUE, NoTime, args.extra_data, NoPath, AllOk).ret = <<TRUE, FALSE>>
              /\ consider_file_for_deletion(CallState(r), p, NoCaution,
                     TRUE, NoTime, args.extra_data, NoPath, AllOk).ret = <<FALSE, FALSE>>

\* ---- overlapping runs
\* run r has neither staged nor deleted a file of the pattern of a persisted
\* row: it holds no entry for the pattern, or one that it loaded on an
\* earlier day's marking, that it has not marked deleted and to which it has
\* added no path
NotTouched(r, row) ==
    \/ row.path \notin DOMAIN archive_entries[r]
    \/ LET e == archive_entries[r][row.path]
       IN /\ ~e.is_deleted
          /\ e.marked_time < TIME_NOW[r]
          /\ e.paths \subseteq literal_eval(row.paths)

\* C18: when two runs on the project overlap and stage or delete files of
\* disjoint sets of patterns, the write_archive_data of one does not remove or
\* put back to an older value a row the other has written: a persisted
\* row whose pattern the writing run has neither staged nor deleted is in the
\* file after the write as it was before.
C18_SaveKeepsOtherRunsRows ==
    [][\A r \in Procs : Writes(r) =>
          \A i \in DOMAIN delete_csv.rows :
             NotTouched(r, delete_csv.rows[i]) =>
                delete_csv.rows[i] \in Range(delete_csv'.rows)]_vars

\* ---- killed runs
\* a staged file that no persisted row lists: the run that staged it did not
\* get to write the Ledger
Orphan(p) ==
    /\ StagedFile(p)
    /\ \A i \in DOMAIN delete_csv.rows : p \notin literal_eval(delete_csv.rows[i].paths)

\* C19: after a run was killed between staging files and writing the Ledger,
\* the complete routine runs that follow bring the files it staged to the
\* state they are due: a routine run that comes to such a file after the
\* grace period of its staging is over deletes it.
C19_KilledRunRecovered ==
    \A r \in Procs : Scanning(r) /\ ~archive[r] =>
        \A p \in todo[r] :
            ( /\ Orphan(p)
              /\ ~IsProtected(protected_entries[r], PathEntry(p))
              /\ today > fs[p].staged_at + fs[p].grace )
            => \A args \in CallSites(p) :
                  LET t == consider_file_for_deletion(CallState(r), p,
                              args.caution_level, FALSE, args.create_time,
                              args.extra_data, args.symlink_path, AllOk)
                  IN t.ret = <<TRUE, FALSE>> /\ p \notin DOMAIN t.fs

\* ---- the ProtectedSet
\* the step in which process r starts a run that gets to its scanners
Starts(r) == pc[r] = "idle" /\ pc'[r] = "scanning"
\* within a run no member of protected_entries is removed, and the write
\* never drops a persisted member
ProtectedKept(r) ==
    /\ (Scanning(r) /\ pc'[r] = "scanning") =>
          protected_entries[r] \subseteq protected_entries'[r]
    /\ Range(protected_csv.rows) \subseteq Range(protected_csv'.rows)

\* C20 as stated: the ProtectedSet only grows: within a run no member is
\* removed and write_protected_data never drops a persisted member, so a
\* path that was protected in one run (a static seed, or the directory of a
\* sent version) is protected in every later run.
C20_ProtectedInLaterRuns ==
    [][\A r \in Procs :
          /\ ProtectedKept(r)
          /\ Starts(r) => ever_protected \subseteq protected_entries'[r]]_vars

\* C20, amended: within a run no member is removed; write_protected_data
\* keeps every persisted member and adds every member the run holds; a run
\* starts with every static seed and every persisted member.  So a seed, and
\* a path protected in a run that went on to write the ProtectedSet, is
\* protected in every later run.
C20_PersistedInLaterRuns ==
    [][\A r \in Procs :
          /\ ProtectedKept(r)
          /\ Scanning(r) =>
                Range(protected_csv.rows) \cup protected_entries[r] \subseteq
                   Range(write_protected_data(protected_csv, protected_entries[r]).rows)
          /\ Starts(r) =>
                PROTECTED_PATHS \cup Range(protected_csv.rows) \subseteq
                   protected_entries'[r]]_vars

\* a run holds the directory of the sent version as protected, and it is
\* in the persisted ProtectedSet from an earlier run
C20_Witness ==
    \E r \in Procs :
        /\ Scanning(r) /\ runs > 1
        /\ VerDir \in protected_entries[r]
        /\ protected_csv.exists /\ VerDir \in Range(protected_csv.rows)
        /\ PROTECTED_PATHS \subseteq protected_entries[r]

\* ---- the Ledger key of a staged name
\* the name a staged file had before the stage prefix was put in front of it
\* (expunge.py 1290: new_name = TIME_DELETE_PREFIX + original_name)
UnstagedPath(p) ==
    Join(DirOf(p), SubSeq(NameOf(p), Len(TIME_DELETE_PREFIX(0)) + 1, Len(NameOf(p))))

\* C21: for every file that a run has staged, the Ledger key computed from
\* its staged name equals the key computed from the name it had before it was
\* staged (for a frame of a sequence: the wildcard key of the sequence).
C21_StagedKeyIsOriginalKey ==
    \A p \in DOMAIN fs : StagedFile(p) => PathEntry(p) = PathEntry(UnstagedPath(p))

\* ---- the size of an entry
\* st_size of the regular file that is, or was, at path p
FoldedSize(p) == SizeOf(Origin(p))

RECURSIVE SumOfSizes(_)
SumOfSizes(S) == IF S = {} THEN 0
                 ELSE LET p == CHOOSE x \in S : TRUE
                      IN FoldedSize(p) + SumOfSizes(S \ {p})

\* C22: in every run, the size of each Ledger entry (of regular files) is
\* the sum of the sizes of the distinct files in its paths: the size of a
\* file counts once, also when the file was staged and is deleted later.
C22_SizeIsSumOfPaths ==
    \A r \in Procs : Scanning(r) =>
        \A k \in DOMAIN archive_entries[r] :
            (\A p \in archive_entries[r][k].paths : Origin(p) # VerDir) =>
                archive_entries[r][k].size = SumOfSizes(archive_entries[r][k].paths)

\* ---- the size that a delete accounts for
\* C23: a consider call that deletes path p returns (True, False), marks the
\* entry deleted, has p in its paths and adds to total_size_deleted exactly
\* the size of p: st_size for a file, the disk usage for a directory; a call
\* that does not delete leaves total_size_deleted as it was.
C23_DeleteAddsSizeOfPath ==
    \A r \in Procs : Scanning(r) =>
        \A p \in DOMAIN fs, l \in CautionLevels, a \in BOOLEAN,
           env \in {AllOk, [AllOk EXCEPT !.delete_ok = FALSE]} :
            LET t == consider_file_for_deletion(CallState(r), p, l, a, NoTime,
                                                NoExtra, NoPath, env)
                k == PathEntry(p)
            IN IF t.fs = Without(fs, p)
               THEN /\ t.ret = <<TRUE, FALSE>>
                    /\ k \in DOMAIN t.archive_entries
                    /\ t.archive_entries[k].is_deleted
                    /\ p \in t.archive_entries[k].paths
                    /\ t.total_size_deleted =
                          total_size_deleted[r] + get_filepath_size(fs, p, fs[p])
               ELSE /\ t.ret # <<TRUE, FALSE>>
                    /\ t.total_size_deleted = total_size_deleted[r]

\* ---- the force flag
\* the paths of a run that a forced call has to delete: not a symbolic link
\* and the Ledger key not protected
Forceable(r) ==
    {p \in DOMAIN fs : /\ fs[p].kind # "link"
                       /\ ~IsProtected(protected_entries[r], PathEntry(p))}

\* C24: with archive=True and the operating system doing as it is asked, a
\* consider call on a path that is not a symbolic link, whose key is not
\* protected and which has a Ledger entry or is given a caution level, deletes
\* the path in that call, staged or not, whatever its mtime, the create_time
\* passed and the delete_time of its entry: it returns (True, False), the path
\* is gone, nothing is renamed or linked, and the entry is marked deleted with
\* the path in its paths.  When the delete fails the path is not staged
\* either: nothing changes.
C24_ForceDeletesAtOnce ==
    \A r \in Procs : Scanning(r) =>
        \A p \in Forceable(r), l \in CautionLevels \cup {NoCaution} :
            (PathEntry(p) \in DOMAIN archive_entries[r] \/ l # NoCaution) =>
                \A ct \in {NoTime} \cup Before(p) :
                    LET t == consider_file_for_deletion(CallState(r), p, l, TRUE,
                                 ct, NoExtra, PubPath, AllOk)
                        f == consider_file_for_deletion(CallState(r), p, l, TRUE,
                                 ct, NoExtra, PubPath,
                                 [AllOk EXCEPT !.delete_ok = FALSE])
                    IN /\ t.ret = <<TRUE, FALSE>>
                       /\ t.fs = Without(fs, p)
                       /\ t.archive_entries[PathEntry(p)].is_deleted
                       /\ p \in t.archive_entries[PathEntry(p)].paths
                       /\ f.ret = <<FALSE, FALSE>> /\ Untouched(r, f)

\* a purge has deleted a file that was not staged and had been written on
\* the day of the purge, and a file that had been staged by an earlier run
C24_Witness ==
    /\ purged
    /\ \E d \in deleted_log : d.forced /\ d.staged_at = -1
    /\ \E d \in deleted_log : d.forced /\ d.staged_at >= 0 /\ d.at < d.staged_at + d.grace

\* ---- the link at the original path
\* the file that was at p is kept under a staged name, or was deleted after
\* it had been staged
StagedAway(p) ==
    \/ \E q \in DOMAIN fs : StagedFile(q) /\ UnstagedPath(q) = p
    \/ \E d \in deleted_log : d.staged_at >= 0 /\ UnstagedPath(d.path) = p

\* the files a routine call at level 0, the level with the shortest warning
\* window, would stage
StaleUnstaged(r) ==
    {p \in Unstaged(r) : fs[p].kind # "link" /\ ~NewerThanWarning(fs[p], TIME_NOW[r], 0)}

\* C25: a symbolic link stands at an original path only when the file that
\* was there has been renamed to its staged name.  In every state, each link
\* on disk is at the path of a file that was staged; and a routine call that
\* stages a file with a symlink path leaves the file, unchanged, under the
\* staged name and the link at the original path, leaves no link when the
\* rename fails (the file is where it was), and leaves the staged file
\* without a link when only the link fails.
C25_LinkOnlyAfterRename ==
    /\ \A p \in DOMAIN fs : fs[p].kind = "link" => StagedAway(p)
    /\ \A r \in Procs : Scanning(r) =>
          \A p \in StaleUnstaged(r) :
              LET n == Join(DirOf(p), TIME_DELETE_PREFIX(TIME_NOW[r]) \o NameOf(p))
                  call(env) == consider_file_for_deletion(CallState(r), p, 0,
                                   FALSE, NoTime, NoExtra, PubPath, env)
                  ok == call(AllOk)
                  norename == call([AllOk EXCEPT !.rename_ok = FALSE])
                  nolink == call([AllOk EXCEPT !.symlink_ok = FALSE])
                  kept(f) == /\ f[n].kind = fs[p].kind
                             /\ f[n].mtime = fs[p].mtime
                             /\ f[n].st_size = fs[p].st_size
              IN /\ DOMAIN ok.fs = DOMAIN fs \cup {n}
                 /\ ok.fs[p] = LinkAttr(PubPath) /\ kept(ok.fs)
                 /\ norename.fs = fs /\ norename.raised
                 /\ DOMAIN nolink.fs = (DOMAIN fs \ {p}) \cup {n}
                 /\ kept(nolink.fs) /\ nolink.raised

\* a run has staged a frame and put the link to the published file at the
\* frame's path
C25_Witness ==
    \E p \in DOMAIN fs :
        /\ fs[p].kind = "link"
        /\ \E q \in DOMAIN fs : StagedFile(q) /\ UnstagedPath(q) = p

\* ---- the calls of a batch
\* how often path p is handed to consider_file_for_deletion
TimesHanded(p) == Cardinality({i \in 1..Len(result.calls) : result.calls[i].filepath = p})

\* C26: consider_filepaths_for_deletion hands every path of its list to
\* consider_file_for_deletion exactly once, and the set of the paths it hands
\* on is the same for every order of the list.
C26_EachPathHandedOnce ==
    result # NoCall =>
        /\ \A p \in Range(arg.filepaths) : TimesHanded(p) = 1
        /\ \A q \in BatchLists : Range(q) = Range(arg.filepaths) =>
              {c.filepath : c \in Range(Handed(q, NoSymlinks))}
                 = {c.filepath : c \in Range(result.calls)}

\* ---- the symlink path of a batch member
\* the place of path p in the list q
PositionIn(q, p) == CHOOSE i \in 1..Len(q) : q[i] = p

\* the first call that is made for path p: the one that stages it
FirstCallFor(p) ==
    result.calls[CHOOSE i \in 1..Len(result.calls) :
                    /\ result.calls[i].filepath = p
                    /\ \A j \in 1..i - 1 : result.calls[j].filepath # p]

\* C30: when consider_filepaths_for_deletion is given a symlink_paths list as
\* long as filepaths, the call that stages a filepath is given, as the target
\* of the link it leaves at that path, the symlink path at the list position
\* of the filepath.
C30_LinkFromSamePosition ==
    (result # NoCall /\ arg.symlink_paths.has) =>
        \A p \in Range(arg.filepaths) :
            FirstCallFor(p).symlink_path
               = arg.symlink_paths.list[PositionIn(arg.filepaths, p)]

\* ---- the prefix is stripped
\* C27: for every file name, also one with parentheses in it, and every
\* staging date, stripping the stage prefix from the staged name gives the
\* file name back.
C27_StripUndoesStaging ==
    result # NoCall => result.stripped = arg.original_name

\* ---- the key itself is protected
\* the paths on disk, links aside, whose Ledger key is a member of the
\* protected_entries of run r
KeyProtected(r) ==
    {p \in DOMAIN fs : fs[p].kind # "link" /\ PathEntry(p) \in protected_entries[r]}

\* C28: a path whose Ledger key is itself a member of protected_entries is
\* not renamed and not deleted by consider_file_for_deletion, and gets no
\* Ledger entry and no symlink, at every caution level (none included), for
\* every age of the file, with and without the force flag, a create_time or
\* a symlink path, and whatever the operating system would answer.
C28_ProtectedKeyUntouched ==
    \A r \in Procs : Scanning(r) =>
        \A p \in KeyProtected(r), l \in CautionLevels \cup {NoCaution}, force \in BOOLEAN :
            \A ct \in {NoTime, [has |-> TRUE, t |-> fs[p].mtime + 1]}, sl \in {NoPath, PubPath} :
                \A env \in {AllOk, [AllOk EXCEPT !.delete_ok = FALSE],
                            [AllOk EXCEPT !.rename_ok = FALSE]} :
                    LET t == consider_file_for_deletion(CallState(r), p, l, force,
                                                        ct, NoExtra, sl, env)
                    IN /\ t.fs = fs
                       /\ t.archive_entries = archive_entries[r]
                       /\ t.total_size_deleted = total_size_deleted[r]

\* a run is scanning with a protected key on disk that a forced call would
\* delete, and a routine call stage or delete, were the key not protected
C28_Witness ==
    \E r \in Procs : Scanning(r) /\
        \E p \in KeyProtected(r) :
            LET open == [CallState(r) EXCEPT !.protected_entries = {}]
                forced == consider_file_for_deletion(open, p, 1, TRUE, NoTime,
                                                     NoExtra, NoPath, AllOk)
                routine == consider_file_for_deletion(open, p, 1, FALSE, NoTime,
                                                      NoExtra, NoPath, AllOk)
            IN p \notin DOMAIN forced.fs /\ p \notin DOMAIN routine.fs

\* ---- the newest versions are kept
\* the step in which clean_old_versions of run r is through with dirpath
OldVersionsStep(r, dirpath) ==
    pc[r] = "scanning" /\ dirpath \in todo[r] /\ dirpath \notin todo'[r]

\* the numbers of the version folders of dirpath that are not staged
UnstagedVersions(fs_, dirpath) ==
    {v \in VersionNumbers : VersionFolder(dirpath, v) \in DOMAIN fs_}

\* the number of versions to keep, as the specification gives it
KeptIn(dirpath, archive_) ==
    (IF archive_ THEN 3 ELSE 5)
      + (IF \E i \in DOMAIN dirpath : \E j \in DOMAIN dirpath[i] :
               dirpath[i][j] \in {"comp", "Comp", "paint"}
         THEN 2 ELSE 0)

\* the calls of a call sequence that are for folders that are not staged
UnstagedCalls(calls) ==
    LET NotStaged(p) == ~HasPrefix(NameOf(p))
    IN SelectSeq(calls, NotStaged)

====
